---- MODULE Spec2Model ----
(***************************************************************************)
(* A model of ts1: the nghttpd log parser (ts1/utils.py), the HTTP/2 frame *)
(* signatures (ts1/http2.py) and the canonical form and hash of a          *)
(* signature (ts1/signature.py).                                           *)
(*                                                                         *)
(* The specifications of the module:                                       *)
(*   Spec       NghttpdLogParser.parse, one action per iteration of its    *)
(*              loop, followed by process_nghttpd_log;                     *)
(*   SpecLive   the same, run to its end;                                  *)
(*   SpecFrame  the frame classes: constructors, to_dict, from_dict;       *)
(*   SpecSig    HTTP2Signature: to_dict, canonicalize, hash, on values;    *)
(*   SpecObj    the same calls on a signature whose lists and dicts are    *)
(*              held by reference.                                         *)
(***************************************************************************)
EXTENDS Integers, Sequences, FiniteSets, TLC

VARIABLES
    \* ---- NghttpdLogParser.parse / process_nghttpd_log (Spec)
    log,             \* self.log.splitlines(): the lines of the trace
    pos,             \* number of lines the iterator `lines` has handed out
    frames,          \* the defaultdict(list): ordered <<client_id, list>> pairs
    previous_lines,  \* lines seen since the last appended frame
    client_id,       \* client id of the last announcement matched, 0 before
    pc,              \* "loop" | "returned" | "raised" | "delivered"
    error,           \* message of the exception parse raised, "" if none
    sigs,            \* what process_nghttpd_log returned, <<>> before
    \* ---- frame classes (SpecFrame)
    args,            \* arguments of the last constructor call
    frame,           \* the frame object under test, NoObject if none
    rec,             \* the dict handed to from_dict
    decoded,         \* what from_dict returned (an object or a raised error)
    fop,             \* last frame operation
    \* ---- HTTP2Signature (SpecSig)
    sig,             \* the signature object, NoObject before construction
    out,             \* result of the last to_dict/canonicalize/hash call
    sop,             \* last signature operation
    \* ---- HTTP2Signature by reference (SpecObj)
    heap,            \* the lists, dicts and instances allocated so far
    obj,             \* reference to the signature, None before construction
    res,             \* result of the last to_dict/canonicalize/hash call
    hop,             \* last call made on obj
    canon            \* <<what the first canonicalize call returned, phase>>:
                     \* "none" before it, "first" after it, "between" once
                     \* another call followed, "again" once canonicalize
                     \* was called after that

parseVars == <<log, pos, frames, previous_lines, client_id, pc, error, sigs>>
frameVars == <<args, frame, rec, decoded, fop>>
sigVars   == <<sig, out, sop>>
objVars   == <<heap, obj, res, hop, canon>>
vars      == <<log, pos, frames, previous_lines, client_id, pc, error, sigs,
               args, frame, rec, decoded, fop, sig, out, sop,
               heap, obj, res, hop, canon>>

(***************************************************************************)
(* Python values.  A value is tagged with its type so that an int and a    *)
(* str never compare equal and JSON can render each its own way.  A dict   *)
(* keeps its keys in insertion order: it is a sequence of <<key, value>>.  *)
(***************************************************************************)
PyInt(n)    == <<"int", n>>
PyStr(s)    == <<"str", s>>
PyBool(b)   == <<"bool", b>>
PyNone      == <<"none">>
PyList(xs)  == <<"list", xs>>
PyTuple(xs) == <<"tuple", xs>>
PyDict(kvs) == <<"dict", kvs>>
PyBytes(bs) == <<"bytes", bs>>

TypeOf(x) == x[1]
Val(x)    == x[2]

\* dict operations on the <<key, value>> sequence of a dict
Keys(kvs)      == {kvs[i][1] : i \in DOMAIN kvs}
HasKey(kvs, k) == k \in Keys(kvs)
Get(kvs, k)    == kvs[CHOOSE i \in DOMAIN kvs : kvs[i][1] = k][2]
SetItem(kvs, k, v) ==
    IF HasKey(kvs, k)
    THEN [i \in DOMAIN kvs |-> IF kvs[i][1] = k THEN <<k, v>> ELSE kvs[i]]
    ELSE Append(kvs, <<k, v>>)
Pop(kvs, k) == SelectSeq(kvs, LAMBDA kv : kv[1] # k)

\* every sequence over S of length at most n
SeqsUpTo(S, n) == UNION {[1..m -> S] : m \in 0..n}

\* An object is a record with a cls field; a call that raised is an object
\* of class "raised" carrying the exception's type.
NoObject      == [cls |-> "none"]
Raise(exc)    == [cls |-> "raised", exc |-> exc]
IsRaised(o)   == o.cls = "raised"

(***************************************************************************)
(* ts1/signature.py: the JSON encoding behind canonicalize.                *)
(***************************************************************************)
\* The characters the model's strings are made of, in code point order:
\* printable ASCII (32..126) but the grave accent (96), which a TLA+ string
\* cannot hold, the Latin-1 supplement (160..255), and the control characters
\* a TLA+ string can hold (tab, line feed, form feed, carriage return).
AsciiLow    == " !\"#$%&'()*+,-./0123456789:;<=>?@ABCDEFGHIJKLMNOPQRSTUVWXYZ[\\]^_"
AsciiHigh   == "abcdefghijklmnopqrstuvwxyz{|}~"
Latin1Chars == " ¡¢£¤¥¦§¨©ª«¬­®¯°±²³´µ¶·¸¹º»¼½¾¿ÀÁÂÃÄÅÆÇÈÉÊËÌÍÎÏÐÑÒÓÔÕÖ×ØÙÚÛÜÝÞßàáâãäåæçèéêëìíîïðñòóôõö÷øùúûüýþÿ"

\* the characters of a string and the index of a character in a string
CharSet(s) == {SubSeq(s, i, i) : i \in 1..Len(s)}
IndexIn(s, c) == CHOOSE i \in 1..Len(s) : SubSeq(s, i, i) = c

\* ord(c)
CodePoint ==
    [c \in {"\t", "\n", "\f", "\r"} \cup CharSet(AsciiLow) \cup CharSet(AsciiHigh)
            \cup CharSet(Latin1Chars) |->
        CASE c = "\t" -> 9
          [] c = "\n" -> 10
          [] c = "\f" -> 12
          [] c = "\r" -> 13
          [] c \in CharSet(AsciiLow)  -> 31 + IndexIn(AsciiLow, c)
          [] c \in CharSet(AsciiHigh) -> 96 + IndexIn(AsciiHigh, c)
          [] OTHER                    -> 159 + IndexIn(Latin1Chars, c)]

\* a < b for two str: the order of their code point sequences
RECURSIVE StrLess(_, _)
StrLess(a, b) ==
    IF b = "" THEN FALSE
    ELSE IF a = "" THEN TRUE
    ELSE LET ca == CodePoint[SubSeq(a, 1, 1)]
             cb == CodePoint[SubSeq(b, 1, 1)]
         IN  IF ca # cb THEN ca < cb
             ELSE StrLess(SubSeq(a, 2, Len(a)), SubSeq(b, 2, Len(b)))

\* sorted(d.items(), key=lambda kv: kv[0]), as the encoder does under
\* sort_keys=True
RECURSIVE SortedItems(_)
SortedItems(kvs) ==
    IF kvs = <<>> THEN <<>>
    ELSE LET rest == SortedItems(SubSeq(kvs, 1, Len(kvs) - 1))
             item == kvs[Len(kvs)]
             k    == Cardinality({i \in DOMAIN rest : StrLess(rest[i][1], item[1])})
         IN  SubSeq(rest, 1, k) \o <<item>> \o SubSeq(rest, k + 1, Len(rest))

HexDigits == "0123456789abcdef"
HexDigit(n) == SubSeq(HexDigits, n + 1, n + 1)

\* the characters py_encode_basestring_ascii leaves as they are: " " to "~"
\* but the quote and the backslash
PlainChars == (CharSet(AsciiLow) \cup CharSet(AsciiHigh)) \ {"\"", "\\"}

\* json.encoder.py_encode_basestring_ascii on one character
EscapeChar(c) ==
    CASE c \in PlainChars -> c
      [] c = "\"" -> "\\\""
      [] c = "\\" -> "\\\\"
      [] c = "\n" -> "\\n"
      [] c = "\r" -> "\\r"
      [] c = "\t" -> "\\t"
      [] c = "\f" -> "\\f"
      [] OTHER -> LET n == CodePoint[c] IN
                  "\\u" \o HexDigit(n \div 4096) \o HexDigit((n \div 256) % 16)
                        \o HexDigit((n \div 16) % 16) \o HexDigit(n % 16)

RECURSIVE Concat(_)
Concat(strs) == IF strs = <<>> THEN "" ELSE strs[1] \o Concat(Tail(strs))

\* a str as a JSON string (ensure_ascii=True)
EncodeStr(s) ==
    IF \A i \in 1..Len(s) : SubSeq(s, i, i) \in PlainChars
    THEN "\"" \o s \o "\""
    ELSE "\"" \o Concat([i \in 1..Len(s) |-> EscapeChar(SubSeq(s, i, i))]) \o "\""

\* base64.b64encode(o).decode("ascii") for a bytes object, given as the
\* sequence of its bytes
B64Chars == "ABCDEFGHIJKLMNOPQRSTUVWXYZabcdefghijklmnopqrstuvwxyz0123456789+/"
B64Char(n) == SubSeq(B64Chars, n + 1, n + 1)

RECURSIVE B64Encode(_)
B64Encode(bs) ==
    IF bs = <<>> THEN ""
    ELSE IF Len(bs) = 1 THEN
        B64Char(bs[1] \div 4) \o B64Char((bs[1] % 4) * 16) \o "=="
    ELSE IF Len(bs) = 2 THEN
        B64Char(bs[1] \div 4) \o B64Char((bs[1] % 4) * 16 + bs[2] \div 16)
            \o B64Char((bs[2] % 16) * 4) \o "="
    ELSE B64Char(bs[1] \div 4) \o B64Char((bs[1] % 4) * 16 + bs[2] \div 16)
            \o B64Char((bs[2] % 16) * 4 + bs[3] \div 64) \o B64Char(bs[3] % 64)
            \o B64Encode(SubSeq(bs, 4, Len(bs)))

\* BytesJSONEncoder.default: a bytes object is encoded in base64
BytesJSONEncoder_default(o) == PyStr(B64Encode(Val(o)))

\* the encoder walking a dict in insertion order whatever sort_keys says
DictItems_Unsorted(kvs, sort_keys) == kvs

\* The items of a dict as the encoder walks them.
DictItems(kvs, sort_keys) == IF sort_keys THEN SortedItems(kvs) ELSE kvs

RECURSIVE Join(_, _)
Join(strs, sep) ==
    IF strs = <<>> THEN ""
    ELSE IF Len(strs) = 1 THEN strs[1]
    ELSE strs[1] \o sep \o Join(Tail(strs), sep)

\* BytesJSONEncoder(sort_keys, indent=None, separators=(", ", ": ")).encode,
\* with ensure_ascii left at True
RECURSIVE JSONEncode(_, _)
JSONEncode(x, sort_keys) ==
    CASE TypeOf(x) = "int"  -> ToString(Val(x))
      [] TypeOf(x) = "str"  -> EncodeStr(Val(x))
      [] TypeOf(x) = "bytes" -> JSONEncode(BytesJSONEncoder_default(x), sort_keys)
      [] TypeOf(x) = "bool" -> (IF Val(x) THEN "true" ELSE "false")
      [] TypeOf(x) = "none" -> "null"
      [] TypeOf(x) \in {"list", "tuple"} ->
            "[" \o Join([i \in DOMAIN Val(x) |-> JSONEncode(Val(x)[i], sort_keys)],
                        ", ") \o "]"
      [] TypeOf(x) = "dict" ->
            LET items == DictItems(Val(x), sort_keys) IN
            "{" \o Join([i \in DOMAIN items |->
                            EncodeStr(items[i][1]) \o ": "
                                 \o JSONEncode(items[i][2], sort_keys)],
                        ", ") \o "}"

(***************************************************************************)
(* ts1/http2.py: the frame classes.                                        *)
(***************************************************************************)
registry == {"SETTINGS", "WINDOW_UPDATE", "HEADERS", "PRIORITY"}

HTTP2_GREASE   == PyStr("GREASE")
VALID_SETTINGS == {PyInt(1), PyInt(2), PyInt(3), PyInt(4), PyInt(5), PyInt(6)}

\* d.get(k): the value, None when the key is absent
DictGet(d, k) == IF HasKey(Val(d), k) THEN Get(Val(d), k) ELSE PyNone

HTTP2FrameSignature_init(frame_type, stream_id) ==
    [cls |-> "HTTP2FrameSignature", frame_type |-> frame_type,
     stream_id |-> stream_id]

\* HTTP2FrameSignature.to_dict leaving the stream id out
HTTP2FrameSignature_to_dict_NoStreamId(self) ==
    PyDict(<< <<"frame_type", self.frame_type>> >>)

HTTP2FrameSignature_to_dict(self) ==
    LET d == << <<"frame_type", self.frame_type>> >> IN
    PyDict(IF self.stream_id # PyNone
           THEN SetItem(d, "stream_id", self.stream_id) ELSE d)

\* iter(x): the types a for loop or an unpacking can walk, and what it walks:
\* the elements of a list or tuple, the keys of a dict in insertion order, the
\* characters of a str, the bytes of a bytes object as ints.  Anything else is
\* not iterable (TypeError).
Iterable(x) == TypeOf(x) \in {"tuple", "list", "dict", "str", "bytes"}
Elements(x) ==
    CASE TypeOf(x) \in {"tuple", "list"} -> Val(x)
      [] TypeOf(x) = "dict"  -> [i \in DOMAIN Val(x) |-> PyStr(Val(x)[i][1])]
      [] TypeOf(x) = "str"   -> [i \in 1..Len(Val(x)) |-> PyStr(SubSeq(Val(x), i, i))]
      [] TypeOf(x) = "bytes" -> [i \in DOMAIN Val(x) |-> PyInt(Val(x)[i])]

\* `(k, v) = x` succeeds for an iterable of exactly two elements
CanUnpack2(x) == Iterable(x) /\ Len(Elements(x)) = 2
Unpack2(x) == Elements(x)
\* the exception of an unpacking that fails: not iterable, or not two elements
UnpackError(x) == IF Iterable(x) THEN "ValueError" ELSE "TypeError"

\* a == b on two values: a bool equals the int 1 or 0
PyEq(a, b) ==
    \/ a = b
    \/ /\ TypeOf(a) \in {"int", "bool"} /\ TypeOf(b) \in {"int", "bool"}
       /\ (IF TypeOf(a) = "bool" THEN (IF Val(a) THEN 1 ELSE 0) ELSE Val(a))
            = (IF TypeOf(b) = "bool" THEN (IF Val(b) THEN 1 ELSE 0) ELSE Val(b))
\* k in self.VALID_SETTINGS
PyIn(k, xs) == \E x \in xs : PyEq(k, x)

\* SettingsEntry with the value of a GREASE setting left as it came
SettingsEntry_KeepValue(k, v) ==
    LET k2 == IF ~PyIn(k, VALID_SETTINGS) THEN HTTP2_GREASE ELSE k
    IN  PyDict(<< <<"id", k2>>, <<"value", v>> >>)

\* the body of the loop of HTTP2SettingsFrame.__init__
SettingsEntry(k, v) ==
    LET k2 == IF ~PyIn(k, VALID_SETTINGS) THEN HTTP2_GREASE ELSE k
        v2 == IF PyEq(k2, HTTP2_GREASE) THEN HTTP2_GREASE ELSE v
    IN  PyDict(<< <<"id", k2>>, <<"value", v2>> >>)

\* the loop stops at the first element that cannot be unpacked
HTTP2SettingsFrame_init(stream_id, settings) ==
    IF ~Iterable(settings) THEN Raise("TypeError")
    ELSE LET es  == Elements(settings)
             bad == {i \in DOMAIN es : ~CanUnpack2(es[i])}
         IN  IF bad # {}
             THEN Raise(UnpackError(es[CHOOSE i \in bad : \A j \in bad : i <= j]))
             ELSE [cls |-> "HTTP2SettingsFrame", frame_type |-> PyStr("SETTINGS"),
                   stream_id |-> stream_id,
                   settings |-> PyList([i \in DOMAIN es |->
                                           SettingsEntry(Unpack2(es[i])[1],
                                                         Unpack2(es[i])[2])])]

HTTP2SettingsFrame_to_dict(self) ==
    PyDict(SetItem(Val(HTTP2FrameSignature_to_dict(self)), "settings",
                   self.settings))

\* HTTP2SettingsFrame.from_dict filling in an empty list for a missing field
HTTP2SettingsFrame_from_dict_Default(d) ==
    HTTP2SettingsFrame_init(DictGet(d, "stream_id"),
                            IF HasKey(Val(d), "settings")
                            THEN Get(Val(d), "settings") ELSE PyList(<<>>))

HTTP2SettingsFrame_from_dict(d) ==
    IF ~HasKey(Val(d), "settings") THEN Raise("KeyError")
    ELSE HTTP2SettingsFrame_init(DictGet(d, "stream_id"), Get(Val(d), "settings"))

HTTP2WindowUpdateFrame_init(stream_id, window_size_increment) ==
    [cls |-> "HTTP2WindowUpdateFrame", frame_type |-> PyStr("WINDOW_UPDATE"),
     stream_id |-> stream_id, window_size_increment |-> window_size_increment]

HTTP2WindowUpdateFrame_to_dict(self) ==
    PyDict(SetItem(Val(HTTP2FrameSignature_to_dict(self)),
                   "window_size_increment", self.window_size_increment))

HTTP2WindowUpdateFrame_from_dict(d) ==
    IF ~HasKey(Val(d), "window_size_increment") THEN Raise("KeyError")
    ELSE HTTP2WindowUpdateFrame_init(DictGet(d, "stream_id"),
                                     Get(Val(d), "window_size_increment"))

HTTP2HeadersFrame_init(stream_id, pseudo_headers) ==
    [cls |-> "HTTP2HeadersFrame", frame_type |-> PyStr("HEADERS"),
     stream_id |-> stream_id, pseudo_headers |-> pseudo_headers]

HTTP2HeadersFrame_to_dict(self) ==
    PyDict(SetItem(Val(HTTP2FrameSignature_to_dict(self)), "pseudo_headers",
                   self.pseudo_headers))

HTTP2HeadersFrame_from_dict(d) ==
    IF ~HasKey(Val(d), "pseudo_headers") THEN Raise("KeyError")
    ELSE HTTP2HeadersFrame_init(DictGet(d, "stream_id"),
                                Get(Val(d), "pseudo_headers"))

HTTP2PriorityFrame_init(stream_id, dep_stream_id, weight, exclusive) ==
    [cls |-> "HTTP2PriorityFrame", frame_type |-> PyStr("PRIORITY"),
     stream_id |-> stream_id,
     priority |-> PyDict(<< <<"dep_stream_id", dep_stream_id>>,
                            <<"weight", weight>>,
                            <<"exclusive", exclusive>> >>)]

HTTP2PriorityFrame_to_dict(self) ==
    PyDict(SetItem(Val(HTTP2FrameSignature_to_dict(self)), "priority",
                   self.priority))

\* **d["priority"] must be a mapping whose keys are exactly the three keyword
\* parameters of the constructor.
HTTP2PriorityFrame_from_dict(d) ==
    IF ~HasKey(Val(d), "priority") THEN Raise("KeyError")
    ELSE LET p == Get(Val(d), "priority") IN
         IF \/ TypeOf(p) # "dict"
            \/ Keys(Val(p)) # {"dep_stream_id", "weight", "exclusive"}
         THEN Raise("TypeError")
         ELSE HTTP2PriorityFrame_init(DictGet(d, "stream_id"),
                                      Get(Val(p), "dep_stream_id"),
                                      Get(Val(p), "weight"),
                                      Get(Val(p), "exclusive"))

\* self.to_dict(), resolved by the object's class
RECURSIVE to_dict(_)

HTTP2Signature_init(fs) == [cls |-> "HTTP2Signature", frames |-> fs]

\* HTTP2Signature.to_dict listing the HEADERS frames after the other frames
HTTP2Signature_to_dict_HeadersLast(self) ==
    LET isH(f) == f.frame_type = PyStr("HEADERS")
        fs == SelectSeq(self.frames, LAMBDA f : ~isH(f))
                \o SelectSeq(self.frames, isH)
    IN  PyDict(<< <<"frames", PyList([i \in DOMAIN fs |-> to_dict(fs[i])])>> >>)

HTTP2Signature_to_dict(self) ==
    PyDict(<< <<"frames",
                PyList([i \in DOMAIN self.frames |-> to_dict(self.frames[i])])>> >>)

to_dict(self) ==
    CASE self.cls = "HTTP2Signature"         -> HTTP2Signature_to_dict(self)
      [] self.cls = "HTTP2SettingsFrame"     -> HTTP2SettingsFrame_to_dict(self)
      [] self.cls = "HTTP2WindowUpdateFrame" -> HTTP2WindowUpdateFrame_to_dict(self)
      [] self.cls = "HTTP2HeadersFrame"      -> HTTP2HeadersFrame_to_dict(self)
      [] self.cls = "HTTP2PriorityFrame"     -> HTTP2PriorityFrame_to_dict(self)
      [] self.cls = "HTTP2FrameSignature"    -> HTTP2FrameSignature_to_dict(self)

\* What the fallback branch of HTTP2FrameSignature.from_dict evaluates to:
\* HTTP2FrameSignature(frame_type=frame_type) omits the required positional
\* parameter stream_id of __init__, which is a TypeError.
OpaqueFallback(frame_type) == Raise("TypeError")

\* HTTP2FrameSignature.from_dict
from_dict(d) ==
    IF ~HasKey(Val(d), "frame_type") THEN Raise("KeyError")
    ELSE LET frame_type == Get(Val(d), "frame_type")
             rest       == PyDict(Pop(Val(d), "frame_type"))
         IN  IF TypeOf(frame_type) = "str" /\ Val(frame_type) \in registry
             THEN CASE Val(frame_type) = "SETTINGS" ->
                          HTTP2SettingsFrame_from_dict(rest)
                    [] Val(frame_type) = "WINDOW_UPDATE" ->
                          HTTP2WindowUpdateFrame_from_dict(rest)
                    [] Val(frame_type) = "HEADERS" ->
                          HTTP2HeadersFrame_from_dict(rest)
                    [] Val(frame_type) = "PRIORITY" ->
                          HTTP2PriorityFrame_from_dict(rest)
             ELSE OpaqueFallback(frame_type)


\* HTTP2Signature.from_dict: an exception of a frame's from_dict propagates
HTTP2Signature_from_dict(d) ==
    LET fs == Val(Get(Val(d), "frames"))
        objs == [i \in DOMAIN fs |-> from_dict(fs[i])]
    IN  IF \E i \in DOMAIN objs : IsRaised(objs[i])
        THEN objs[CHOOSE i \in DOMAIN objs :
                    /\ IsRaised(objs[i])
                    /\ \A j \in 1..(i - 1) : ~IsRaised(objs[j])]
        ELSE HTTP2Signature_init(objs)

(***************************************************************************)
(* ts1/signature.py: Signature.canonicalize and Signature.hash.            *)
(***************************************************************************)
canonicalize(self) == JSONEncode(to_dict(self), TRUE)

\* hashlib.sha1 of the canonical form's bytes: the digest is kept symbolic,
\* as the pair of the algorithm and the text it digests.
hash(self) == <<"sha1", canonicalize(self)>>

(***************************************************************************)
(* The same classes on objects held by reference.                          *)
(*                                                                         *)
(* A list, a dict and an instance are cells of a heap, numbered in the     *)
(* order of their allocation; a value that is one of them is a reference   *)
(* to its cell, so that two names of one list see each other's writes, as  *)
(* in `d["settings"] = self.settings`.  A cell is <<"list", elements>>,    *)
(* <<"dict", items>> or <<"object", attributes>>, and an operation takes   *)
(* the heap and returns the heap it leaves and the value it returns.       *)
(***************************************************************************)
Ref(a)     == <<"ref", a>>
Cell(h, r) == h[r[2]]

\* a new list, dict or instance
New(h, cell) == [heap |-> Append(h, cell), ret |-> Ref(Len(h) + 1)]
\* d[k] = v
StoreItem(h, d, k, v) == [h EXCEPT ![d[2]] = <<"dict", SetItem(@[2], k, v)>>]
\* l.append(v)
AppendItem(h, l, v) == [h EXCEPT ![l[2]] = <<"list", Append(@[2], v)>>]
\* self.<name>
GetAttr(h, self, name) == Cell(h, self)[2][name]

\* Statements run one after the other: F runs on what the statement before it
\* left, v, once v is known.  (An operator's argument is otherwise evaluated
\* where the operator first uses it, inside everything evaluated since.)
Then(v, F(_)) == CHOOSE r \in {F(x) : x \in {v}} : TRUE

\* a list or dict literal: a cell for it and for every list and dict in it
RECURSIVE Store(_, _)
RECURSIVE StoreAll(_, _)
Store(h, x) ==
    CASE TypeOf(x) = "list" ->
            Then(StoreAll(h, Val(x)),
                 LAMBDA m : New(m.heap, <<"list", m.ret>>))
      [] TypeOf(x) = "dict" ->
            Then(StoreAll(h, [i \in DOMAIN Val(x) |-> Val(x)[i][2]]),
                 LAMBDA m : New(m.heap, <<"dict", [i \in DOMAIN Val(x) |->
                                                     <<Val(x)[i][1], m.ret[i]>>]>>))
      [] OTHER -> [heap |-> h, ret |-> x]
StoreAll(h, xs) ==
    IF xs = <<>> THEN [heap |-> h, ret |-> <<>>]
    ELSE Then(Store(h, Head(xs)), LAMBDA m :
         Then(StoreAll(m.heap, Tail(xs)), LAMBDA r :
              [heap |-> r.heap, ret |-> <<m.ret>> \o r.ret]))

\* the attribute of a frame that holds a list or a dict: self.settings,
\* self.pseudo_headers, self.priority
PayloadField(cls) ==
    CASE cls = "HTTP2SettingsFrame" -> "settings"
      [] cls = "HTTP2HeadersFrame"  -> "pseudo_headers"
      [] cls = "HTTP2PriorityFrame" -> "priority"
      [] OTHER                      -> ""

\* the instance a frame constructor leaves on the heap, given the frame's
\* attributes f as the constructor computes them
NewFrame(h, f) ==
    LET p == PayloadField(f.cls) IN
    IF p = "" THEN New(h, <<"object", f>>)
    ELSE Then(Store(h, f[p]),
              LAMBDA m : New(m.heap, <<"object", [f EXCEPT ![p] = m.ret]>>))

RECURSIVE NewFrames(_, _)
NewFrames(h, fs) ==
    IF fs = <<>> THEN [heap |-> h, ret |-> <<>>]
    ELSE Then(NewFrame(h, Head(fs)), LAMBDA m :
         Then(NewFrames(m.heap, Tail(fs)), LAMBDA r :
              [heap |-> r.heap, ret |-> <<m.ret>> \o r.ret]))

\* HTTP2Signature(frames) on a list of frames just constructed
HTTP2Signature_init_heap(h, fs) ==
    Then(NewFrames(h, fs), LAMBDA m :
    Then(New(m.heap, <<"list", m.ret>>), LAMBDA l :
         New(l.heap, <<"object", [cls |-> "HTTP2Signature", frames |-> l.ret]>>)))

HTTP2FrameSignature_to_dict_heap(h, self) ==
    LET m   == New(h, <<"dict",
                        << <<"frame_type", GetAttr(h, self, "frame_type")>> >> >>)
        sid == GetAttr(h, self, "stream_id")
    IN  IF sid # PyNone
        THEN [heap |-> StoreItem(m.heap, m.ret, "stream_id", sid), ret |-> m.ret]
        ELSE m

HTTP2SettingsFrame_to_dict_heap(h, self) ==
    LET m == HTTP2FrameSignature_to_dict_heap(h, self)
    IN  [heap |-> StoreItem(m.heap, m.ret, "settings",
                            GetAttr(m.heap, self, "settings")),
         ret  |-> m.ret]

HTTP2WindowUpdateFrame_to_dict_heap(h, self) ==
    LET m == HTTP2FrameSignature_to_dict_heap(h, self)
    IN  [heap |-> StoreItem(m.heap, m.ret, "window_size_increment",
                            GetAttr(m.heap, self, "window_size_increment")),
         ret  |-> m.ret]

HTTP2HeadersFrame_to_dict_heap(h, self) ==
    LET m == HTTP2FrameSignature_to_dict_heap(h, self)
    IN  [heap |-> StoreItem(m.heap, m.ret, "pseudo_headers",
                            GetAttr(m.heap, self, "pseudo_headers")),
         ret  |-> m.ret]

\* d.update(e)
RECURSIVE Update(_, _)
Update(kvs, new) ==
    IF new = <<>> THEN kvs
    ELSE Update(SetItem(kvs, Head(new)[1], Head(new)[2]), Tail(new))

\* HTTP2PriorityFrame.to_dict adding the frame's fields to self.priority and
\* returning that dict, instead of building a dict of its own
HTTP2PriorityFrame_to_dict_InPlace(h, self) ==
    LET m == HTTP2FrameSignature_to_dict_heap(h, self)
        p == GetAttr(m.heap, self, "priority")
    IN  [heap |-> [m.heap EXCEPT ![p[2]] =
                      <<"dict", Update(@[2], Cell(m.heap, m.ret)[2])>>],
         ret  |-> p]

HTTP2PriorityFrame_to_dict_heap(h, self) ==
    LET m == HTTP2FrameSignature_to_dict_heap(h, self)
    IN  [heap |-> StoreItem(m.heap, m.ret, "priority",
                            GetAttr(m.heap, self, "priority")),
         ret  |-> m.ret]

\* frame.to_dict(), resolved by the class of the instance
frame_to_dict_heap(h, self) ==
    LET cls == GetAttr(h, self, "cls") IN
    CASE cls = "HTTP2SettingsFrame"     -> HTTP2SettingsFrame_to_dict_heap(h, self)
      [] cls = "HTTP2WindowUpdateFrame" -> HTTP2WindowUpdateFrame_to_dict_heap(h, self)
      [] cls = "HTTP2HeadersFrame"      -> HTTP2HeadersFrame_to_dict_heap(h, self)
      [] cls = "HTTP2PriorityFrame"     -> HTTP2PriorityFrame_to_dict_heap(h, self)
      [] cls = "HTTP2FrameSignature"    -> HTTP2FrameSignature_to_dict_heap(h, self)

\* [frame.to_dict() for frame in self.frames]: the comprehension walks the
\* list fs as it is at each step and appends each result to its own list l
RECURSIVE ToDictEach(_, _, _, _)
ToDictEach(h, l, fs, i) ==
    IF i > Len(Cell(h, fs)[2]) THEN h
    ELSE Then(frame_to_dict_heap(h, Cell(h, fs)[2][i]), LAMBDA m :
         Then(AppendItem(m.heap, l, m.ret), LAMBDA g :
              ToDictEach(g, l, fs, i + 1)))

HTTP2Signature_to_dict_heap(h, self) ==
    Then(New(h, <<"list", <<>> >>), LAMBDA l :
    Then(ToDictEach(l.heap, l.ret, GetAttr(h, self, "frames"), 1), LAMBDA g :
         New(g, <<"dict", << <<"frames", l.ret>> >> >>)))

\* the value a reference stands for, as the encoder reads it: every list and
\* dict with its contents in place of the references
RECURSIVE Deref(_, _)
Deref(h, v) ==
    IF TypeOf(v) # "ref" THEN v
    ELSE LET c == Cell(h, v) IN
         CASE c[1] = "list" -> PyList([i \in DOMAIN c[2] |-> Deref(h, c[2][i])])
           [] c[1] = "dict" ->
                 PyDict([i \in DOMAIN c[2] |->
                            <<c[2][i][1], Deref(h, c[2][i][2])>>])
           [] c[1] = "object" ->
                 [k \in DOMAIN c[2] |->
                     IF k = "cls" THEN c[2][k] ELSE Deref(h, c[2][k])]

\* Signature.canonicalize: the encoder reads the dict to_dict returned
canonicalize_heap(h, self) ==
    LET m == HTTP2Signature_to_dict_heap(h, self)
    IN  [heap |-> m.heap, ret |-> JSONEncode(Deref(m.heap, m.ret), TRUE)]

\* Signature.hash
hash_heap(h, self) ==
    LET m == canonicalize_heap(h, self)
    IN  [heap |-> m.heap, ret |-> <<"sha1", m.ret>>]

\* the cells a cell refers to
RefsOf(xs) == {xs[i][2] : i \in {j \in DOMAIN xs : TypeOf(xs[j]) = "ref"}}
RefsIn(c) ==
    CASE c[1] = "list"   -> RefsOf(c[2])
      [] c[1] = "dict"   -> RefsOf([i \in DOMAIN c[2] |-> c[2][i][2]])
      [] c[1] = "object" ->
            {c[2][k][2] : k \in {n \in DOMAIN c[2] \ {"cls"} :
                                    TypeOf(c[2][n]) = "ref"}}

\* the cells a value is made of
RECURSIVE ReachFrom(_, _)
ReachFrom(h, as) ==
    LET more == as \cup UNION {RefsIn(h[a]) : a \in as}
    IN  IF more = as THEN as ELSE ReachFrom(h, more)
Reachable(h, v) == IF TypeOf(v) = "ref" THEN ReachFrom(h, {v[2]}) ELSE {}

\* The heap once the caller has let go of everything but v: the cells
\* allocated after the last cell of v are garbage.
Reclaim(h, v) ==
    LET as == Reachable(h, v)
    IN  SubSeq(h, 1, IF as = {} THEN 0
                     ELSE CHOOSE a \in as : \A b \in as : b <= a)

(***************************************************************************)
(* ts1/utils.py: NghttpdLogParser.                                         *)
(*                                                                         *)
(* A line of the log is a record of its kind and of the groups the         *)
(* regular expressions of the parser capture from it:                      *)
(*   frame    "[id=<id>] ... recv <ftype> frame <... stream_id=<n>>"       *)
(*   niv      "(niv=<niv>)"                                                *)
(*   setting  "[<NAME>(0x<hex>):<value>]", hex a string of decimal digits  *)
(*   window   "(window_size_increment=<inc>)"                              *)
(*   priority "(dep_stream_id=<n>, weight=<n>, exclusive=<n>)"             *)
(*   header   "[id=<id>] ... recv (stream_id=<n>) <name>: ..."             *)
(***************************************************************************)
FrameLine(c, t, s)    == [kind |-> "frame", id |-> c, ftype |-> t, stream_id |-> s]
NivLine(n)            == [kind |-> "niv", niv |-> n]
SettingLine(h, v)     == [kind |-> "setting", hex |-> h, value |-> v]
WindowLine(n)         == [kind |-> "window", inc |-> n]
PriorityLine(d, w, e) == [kind |-> "priority", dep_stream_id |-> d, weight |-> w,
                          exclusive |-> e]
HeaderLine(c, s, n)   == [kind |-> "header", id |-> c, stream_id |-> s, name |-> n]

\* re.match(r"\[id=(\d+)\].*recv ([A-Z_]+) frame.*stream_id=(\d+)", line)
MatchFrame(line)    == line.kind = "frame"
\* re.match(r"\s*\(niv=(\d+)\)", line)
MatchNiv(line)      == line.kind = "niv"
\* re.match(r"\s*\[[A-Z_]+\(0x(\d+)\):(\d+)\]", line)
MatchSetting(line)  == line.kind = "setting"
\* re.match(r"\s*\(window_size_increment=(\d+)\)", line)
MatchWindow(line)   == line.kind = "window"
\* re.match(r"\s*\(dep_stream_id=(\d+), weight=(\d+), exclusive=(\d+)\)", line)
MatchPriority(line) == line.kind = "priority"
\* re.match(r".*recv \(stream_id={}\) (:[a-z]*?):".format(stream_id), line)
MatchHeader(line, stream_id) == line.kind = "header" /\ line.stream_id = stream_id

\* int(digits, 16)
RECURSIVE HexToInt(_)
HexToInt(ds) ==
    IF ds = <<>> THEN 0
    ELSE HexToInt(SubSeq(ds, 1, Len(ds) - 1)) * 16 + ds[Len(ds)]

\* What a consumer hands back: its value and the iterator's new position, or
\* the exception it raised.  next(lines) on an exhausted iterator raises
\* StopIteration.
Ok(v, p)     == [ok |-> TRUE, val |-> v, pos |-> p, exc |-> ""]
Raised(e, p) == [ok |-> FALSE, val |-> PyNone, pos |-> p, exc |-> e]

UnexpectedLine == "Malformed log: unexpected line"
EndedUnexpectedly == "Malformed log: log ended unexpectedly"
UnknownType == "Unknown frame type"

\* the while loop of _process_settings_frame: consume lines until one matches
\* the count line; <<niv, position>> or <<>> when the lines run out
RECURSIVE FindNiv(_, _)
FindNiv(lines, p) ==
    IF p >= Len(lines) THEN <<>>
    ELSE IF MatchNiv(lines[p + 1]) THEN <<lines[p + 1].niv, p + 1>>
    ELSE FindNiv(lines, p + 1)

\* the for loop of _process_settings_frame
RECURSIVE ReadSettings(_, _, _, _)
ReadSettings(lines, p, n, settings) ==
    IF n = 0 THEN Ok(PyList(settings), p)
    ELSE IF p >= Len(lines) THEN Raised("StopIteration", p)
    ELSE IF ~MatchSetting(lines[p + 1]) THEN Raised(UnexpectedLine, p + 1)
    ELSE ReadSettings(lines, p + 1, n - 1,
                      Append(settings,
                             PyTuple(<<PyInt(HexToInt(lines[p + 1].hex)),
                                       PyInt(lines[p + 1].value)>>)))

process_settings_frame(lines, p) ==
    LET found == FindNiv(lines, p) IN
    IF found = <<>> THEN Raised("StopIteration", Len(lines))
    ELSE ReadSettings(lines, found[2], found[1], <<>>)

process_window_update_frame(lines, p) ==
    IF p >= Len(lines) THEN Raised("StopIteration", p)
    ELSE IF ~MatchWindow(lines[p + 1]) THEN Raised(UnexpectedLine, p + 1)
    ELSE Ok(PyInt(lines[p + 1].inc), p + 1)

\* the pattern of _process_headers_frame without the stream id in it
process_headers_frame_AnyStream(prev, p, stream_id) ==
    LET matching == SelectSeq(prev, LAMBDA l : l.kind = "header") IN
    Ok(PyList([i \in DOMAIN matching |-> PyStr(matching[i].name)]), p)

process_headers_frame(prev, p, stream_id) ==
    LET matching == SelectSeq(prev, LAMBDA l : MatchHeader(l, stream_id)) IN
    Ok(PyList([i \in DOMAIN matching |-> PyStr(matching[i].name)]), p)

process_priority_frame(lines, p) ==
    IF p >= Len(lines) THEN Raised("StopIteration", p)
    ELSE IF ~MatchPriority(lines[p + 1]) THEN Raised(UnexpectedLine, p + 1)
    ELSE Ok(PyDict(<< <<"dep_stream_id", PyInt(lines[p + 1].dep_stream_id)>>,
                      <<"weight", PyInt(lines[p + 1].weight)>>,
                      <<"exclusive", PyBool(lines[p + 1].exclusive # 0)>> >>),
            p + 1)

\* the else branch keeping a frame of an unknown type as an opaque frame
UnknownFrameType_Opaque(fr, p) == Ok(fr, p)

\* the else branch of the dispatch on frame_type
UnknownFrameType(fr, p) == Raised(UnknownType, p)

\* The body of the loop of parse for a line that announces a frame: the frame
\* dict filled in by the consumer of its type.  p counts the lines handed out
\* so far, the announcement included.
BuildFrame(lines, prev, p, line) ==
    LET fr == << <<"frame_type", PyStr(line.ftype)>>,
                 <<"stream_id", PyInt(line.stream_id)>> >>
        Filled(key, r) ==
            IF r.ok THEN Ok(PyDict(SetItem(fr, key, r.val)), r.pos) ELSE r
    IN  CASE line.ftype = "SETTINGS" ->
                Filled("settings", process_settings_frame(lines, p))
          [] line.ftype = "WINDOW_UPDATE" ->
                Filled("window_size_increment",
                       process_window_update_frame(lines, p))
          [] line.ftype = "HEADERS" ->
                Filled("pseudo_headers",
                       process_headers_frame(prev, p, line.stream_id))
          [] line.ftype = "PRIORITY" ->
                Filled("priority", process_priority_frame(lines, p))
          [] OTHER -> UnknownFrameType(PyDict(fr), p)

\* frames[client_id].append(frame) on the defaultdict(list)
AppendFrameTo(fr, cid, f) ==
    IF \E i \in DOMAIN fr : fr[i][1] = cid
    THEN [i \in DOMAIN fr |->
            IF fr[i][1] = cid THEN <<cid, Append(fr[i][2], f)>>
            ELSE fr[i]]
    ELSE Append(fr, <<cid, <<f>> >>)

\* the loop never left after a HEADERS frame
StopAfter_Never(frame_type) == FALSE

\* "Stop after the first HEADERS frame"
StopAfter(frame_type) == frame_type = "HEADERS"

\* the handler swallowing StopIteration and returning what was collected
ExceptStopIteration_Swallow == <<"returned", "">>

\* except StopIteration: raise Exception("Malformed log: log ended unexpectedly")
\* <<pc, error>> after the handler
ExceptStopIteration == <<"raised", EndedUnexpectedly>>

(***************************************************************************)
(* Spec: parse run on a log, then process_nghttpd_log on what it returned. *)
(***************************************************************************)
MaxLines == 4

Lines ==
    { FrameLine(1, "SETTINGS", 0), FrameLine(1, "HEADERS", 1),
      FrameLine(1, "PRIORITY", 1), FrameLine(2, "WINDOW_UPDATE", 0),
      FrameLine(2, "HEADERS", 1), FrameLine(2, "PING", 0),
      NivLine(1), NivLine(2),
      SettingLine(<<0, 3>>, 100), SettingLine(<<1, 0>>, 5),
      WindowLine(65535), PriorityLine(0, 255, 1),
      HeaderLine(1, 1, ":method"), HeaderLine(2, 1, ":path"),
      HeaderLine(1, 3, ":scheme") }

Init ==
    /\ log \in SeqsUpTo(Lines, MaxLines)
    /\ pos = 0 /\ frames = <<>> /\ previous_lines = <<>> /\ client_id = 0
    /\ pc = "loop" /\ error = "" /\ sigs = <<>>
    /\ args = [op |-> "none"] /\ frame = NoObject /\ rec = PyNone
    /\ decoded = NoObject /\ fop = "none"
    /\ sig = NoObject /\ out = PyNone /\ sop = "none"
    /\ heap = <<>> /\ obj = PyNone /\ res = PyNone /\ hop = "none"
    /\ canon = <<PyNone, "none">>

\* the loop going round on a line it does not take from the iterator
AppendPreviousLine_NoAdvance ==
    /\ pc = "loop" /\ pos < Len(log)
    /\ ~MatchFrame(log[pos + 1])
    /\ previous_lines' = Append(previous_lines, log[pos + 1])
    /\ UNCHANGED <<log, pos, frames, client_id, pc, error, sigs, frameVars, sigVars, objVars>>

\* the line does not announce a frame: previous_lines.append(line); continue
AppendPreviousLine ==
    /\ pc = "loop" /\ pos < Len(log)
    /\ ~MatchFrame(log[pos + 1])
    /\ previous_lines' = Append(previous_lines, log[pos + 1])
    /\ pos' = pos + 1
    /\ UNCHANGED <<log, frames, client_id, pc, error, sigs, frameVars, sigVars, objVars>>

\* the frame appended with previous_lines left as it was
AppendFrame_KeepBuffer ==
    /\ pc = "loop" /\ pos < Len(log)
    /\ MatchFrame(log[pos + 1])
    /\ LET line == log[pos + 1]
           r == BuildFrame(log, previous_lines, pos + 1, line)
       IN  /\ r.ok
           /\ client_id' = line.id
           /\ frames' = AppendFrameTo(frames, line.id, r.val)
           /\ pos' = r.pos
           /\ pc' = IF StopAfter(line.ftype) THEN "returned" ELSE "loop"
    /\ UNCHANGED <<log, previous_lines, error, sigs, frameVars, sigVars, objVars>>

\* the line announces a frame and its consumer succeeds: the frame is
\* appended, previous_lines emptied; after a HEADERS frame the loop is left
\* and frames returned
AppendFrame ==
    /\ pc = "loop" /\ pos < Len(log)
    /\ MatchFrame(log[pos + 1])
    /\ LET line == log[pos + 1]
           r == BuildFrame(log, previous_lines, pos + 1, line)
       IN  /\ r.ok
           /\ client_id' = line.id
           /\ frames' = AppendFrameTo(frames, line.id, r.val)
           /\ previous_lines' = <<>>
           /\ pos' = r.pos
           /\ pc' = IF StopAfter(line.ftype) THEN "returned" ELSE "loop"
    /\ UNCHANGED <<log, error, sigs, frameVars, sigVars, objVars>>

\* the line announces a frame and its consumer raises: parse raises
RaiseMalformed ==
    /\ pc = "loop" /\ pos < Len(log)
    /\ MatchFrame(log[pos + 1])
    /\ LET line == log[pos + 1]
           r == BuildFrame(log, previous_lines, pos + 1, line)
       IN  /\ ~r.ok
           /\ client_id' = line.id
           /\ pos' = r.pos
           /\ pc' = IF r.exc = "StopIteration" THEN ExceptStopIteration[1]
                    ELSE "raised"
           /\ error' = IF r.exc = "StopIteration" THEN ExceptStopIteration[2]
                       ELSE r.exc
    /\ UNCHANGED <<log, frames, previous_lines, sigs, frameVars, sigVars, objVars>>

\* the for loop finds the iterator exhausted: return frames
ReturnFrames ==
    /\ pc = "loop" /\ pos = Len(log)
    /\ pc' = "returned"
    /\ UNCHANGED <<log, pos, frames, previous_lines, client_id, error, sigs,
                   frameVars, sigVars, objVars>>

\* process_nghttpd_log: one signature per client of the mapping parse
\* returned; an exception of parse or of from_dict leaves it without a result
process_nghttpd_log ==
    /\ pc = "returned"
    /\ LET made == [i \in DOMAIN frames |->
                      <<frames[i][1],
                        HTTP2Signature_from_dict(
                            PyDict(<< <<"frames", PyList(frames[i][2])>> >>))>>]
       IN  IF \E i \in DOMAIN made : IsRaised(made[i][2])
           THEN /\ pc' = "raised" /\ error' = "from_dict" /\ sigs' = sigs
           ELSE /\ pc' = "delivered" /\ error' = error /\ sigs' = made
    /\ UNCHANGED <<log, pos, frames, previous_lines, client_id, frameVars, sigVars, objVars>>

Next ==
    \/ AppendPreviousLine
    \/ AppendFrame
    \/ RaiseMalformed
    \/ ReturnFrames
    \/ process_nghttpd_log

Spec == Init /\ [][Next]_vars

\* The same program on the traces of at most MaxLinesLive lines, run to its
\* end: parse and process_nghttpd_log are synchronous, single-threaded code,
\* so a call that can take a step takes it.
MaxLinesLive == 3

InitLive ==
    /\ log \in SeqsUpTo(Lines, MaxLinesLive)
    /\ pos = 0 /\ frames = <<>> /\ previous_lines = <<>> /\ client_id = 0
    /\ pc = "loop" /\ error = "" /\ sigs = <<>>
    /\ args = [op |-> "none"] /\ frame = NoObject /\ rec = PyNone
    /\ decoded = NoObject /\ fop = "none"
    /\ sig = NoObject /\ out = PyNone /\ sop = "none"
    /\ heap = <<>> /\ obj = PyNone /\ res = PyNone /\ hop = "none"
    /\ canon = <<PyNone, "none">>

SpecLive == InitLive /\ [][Next]_vars /\ WF_vars(Next)

(***************************************************************************)
(* Claims about parse, checked under Spec.                                 *)
(***************************************************************************)
Clients == {l.id : l \in {x \in Lines : x.kind = "frame"}}

FrameTypeOf(d) == Val(Get(Val(d), "frame_type"))
StreamIdOf(d)  == Val(Get(Val(d), "stream_id"))

\* the list the mapping holds for a client, empty when it has no entry
FramesOf(c) ==
    IF \E i \in DOMAIN frames : frames[i][1] = c
    THEN frames[CHOOSE i \in DOMAIN frames : frames[i][1] = c][2]
    ELSE <<>>

Returned == pc \in {"returned", "delivered"}

\* A well-formed trace: pseudo-header lines and frames of the four known
\* types, each announcement followed by exactly the body its type has.
RECURSIVE WellFormedFrom(_, _)
WellFormedFrom(lines, i) ==
    IF i > Len(lines) THEN TRUE
    ELSE LET l == lines[i] IN
         CASE l.kind = "header" -> WellFormedFrom(lines, i + 1)
           [] l.kind = "frame" /\ l.ftype = "HEADERS" ->
                 WellFormedFrom(lines, i + 1)
           [] l.kind = "frame" /\ l.ftype \in {"WINDOW_UPDATE", "PRIORITY"} ->
                 /\ i + 1 <= Len(lines)
                 /\ lines[i + 1].kind =
                       (IF l.ftype = "PRIORITY" THEN "priority" ELSE "window")
                 /\ WellFormedFrom(lines, i + 2)
           [] l.kind = "frame" /\ l.ftype = "SETTINGS" ->
                 /\ i + 1 <= Len(lines)
                 /\ lines[i + 1].kind = "niv"
                 /\ i + 1 + lines[i + 1].niv <= Len(lines)
                 /\ \A j \in (i + 2)..(i + 1 + lines[i + 1].niv) :
                       lines[j].kind = "setting"
                 /\ WellFormedFrom(lines, i + 2 + lines[i + 1].niv)
           [] OTHER -> FALSE

\* the announcements of a client in trace order, up to and including its
\* first HEADERS announcement, as <<type, stream id>>
Announced(c) ==
    LET mine == SelectSeq(log, LAMBDA l : l.kind = "frame" /\ l.id = c)
        hs   == {h \in DOMAIN mine : mine[h].ftype = "HEADERS"}
        cut  == IF hs = {} THEN Len(mine)
                ELSE CHOOSE h \in hs : \A g \in hs : h <= g
    IN  [i \in 1..cut |-> <<mine[i].ftype, mine[i].stream_id>>]

\* C1: for a well-formed trace that interleaves the announcements of two
\* clients, the returned mapping holds for each client exactly that client's
\* frames, in trace order, up to and including its own first HEADERS frame.
C1_MultiClientIsolation ==
    (/\ Returned /\ WellFormedFrom(log, 1)
     /\ \A c \in Clients : Announced(c) # <<>>) =>
        \A c \in Clients :
            [i \in DOMAIN FramesOf(c) |->
                <<FrameTypeOf(FramesOf(c)[i]), StreamIdOf(FramesOf(c)[i])>>]
              = Announced(c)

\* C2: a frame list holds at most one HEADERS frame and that frame is its last
\* element; once a list holds a HEADERS frame the scan has stopped at the
\* line that announced it, so no frame announced after it is in any list.
C2_HeadersTruncation ==
    \A i \in DOMAIN frames :
        LET fl == frames[i][2] IN
        \A j \in DOMAIN fl :
            FrameTypeOf(fl[j]) = "HEADERS" =>
                /\ j = Len(fl)
                /\ pc # "loop"
                /\ pos >= 1
                /\ log[pos] = FrameLine(frames[i][1], "HEADERS", StreamIdOf(fl[j]))

\* parse returned at a client's HEADERS frame while the trace goes on with
\* another frame of that client
C2_Witness ==
    /\ pc = "returned"
    /\ Len(log) = 3 /\ pos = 1
    /\ log[1] = FrameLine(1, "HEADERS", 1)
    /\ log[2] = FrameLine(1, "PRIORITY", 1)
    /\ log[3] = PriorityLine(0, 255, 1)
    /\ Len(FramesOf(1)) = 1
    /\ FrameTypeOf(FramesOf(1)[1]) = "HEADERS"

\* the signature process_nghttpd_log delivers for a client, if any
Delivered(c) == {sigs[k][2] : k \in {n \in DOMAIN sigs : sigs[n][1] = c}}

\* C7: when extraction of a frame of one client fails as malformed, the frames
\* appended earlier for another client are still delivered to the caller.
C7_FailureIsolation ==
    (pc = "raised") =>
        \A i \in DOMAIN frames :
            frames[i][1] # client_id =>
                Delivered(frames[i][1]) =
                    {HTTP2Signature_from_dict(
                        PyDict(<< <<"frames", PyList(frames[i][2])>> >>))}

\* The trace ends while the consumer of the frame announced at line p still
\* needs a line: no body line for WINDOW_UPDATE and PRIORITY; for SETTINGS no
\* count line, or a count line followed only by parameter lines, fewer than
\* it counts.
RunsOut(lines, p) ==
    LET t == lines[p].ftype IN
    \/ t \in {"WINDOW_UPDATE", "PRIORITY"} /\ p = Len(lines)
    \/ /\ t = "SETTINGS"
       /\ LET nivs == {j \in (p + 1)..Len(lines) : lines[j].kind = "niv"} IN
          \/ nivs = {}
          \/ LET j == CHOOSE x \in nivs : \A y \in nivs : x <= y IN
             /\ \A k \in (j + 1)..Len(lines) : lines[k].kind = "setting"
             /\ Len(lines) - j < lines[j].niv

\* C8: whenever the trace runs out of lines while the SETTINGS, WINDOW_UPDATE
\* or PRIORITY consumer still needs one, parse raises the malformed-log error
\* without appending the incomplete frame, and having raised it never returns
\* a mapping.
C8_EndMidFrameIsFatal ==
    [][/\ (/\ pc = "loop" /\ pos < Len(log)
           /\ log[pos + 1].kind = "frame"
           /\ RunsOut(log, pos + 1))
          => (/\ pc' = "raised" /\ error' = EndedUnexpectedly
              /\ frames' = frames /\ sigs' = <<>>)
       /\ (pc = "raised") => (pc' = "raised" /\ frames' = frames /\ sigs' = sigs)
      ]_vars

\* a SETTINGS frame counts two parameters and the trace ends after the first
C8_Witness ==
    /\ pc = "raised" /\ error = EndedUnexpectedly
    /\ log = <<FrameLine(1, "SETTINGS", 0), NivLine(2), SettingLine(<<0, 3>>, 100)>>
    /\ pos = 3 /\ frames = <<>>

\* C9: when the scan matches an announcement whose type is not one of
\* SETTINGS, WINDOW_UPDATE, HEADERS, PRIORITY, parse raises; no frame list
\* ever holds a frame of another type.
C9_UnknownTypeFailsFast ==
    [][/\ (/\ pc = "loop" /\ pos < Len(log)
           /\ log[pos + 1].kind = "frame"
           /\ log[pos + 1].ftype \notin
                 {"SETTINGS", "WINDOW_UPDATE", "HEADERS", "PRIORITY"})
          => (pc' = "raised" /\ error' = UnknownType /\ frames' = frames)
       /\ \A i \in DOMAIN frames' :
             \A j \in DOMAIN frames'[i][2] :
                 FrameTypeOf(frames'[i][2][j]) \in
                     {"SETTINGS", "WINDOW_UPDATE", "HEADERS", "PRIORITY"}
      ]_vars

\* a PING announcement was matched after a frame of client 1 was appended
C9_Witness ==
    /\ pc = "raised" /\ error = UnknownType
    /\ pos >= 2 /\ log[pos] = FrameLine(2, "PING", 0)
    /\ Len(FramesOf(1)) = 1

\* the list a mapping holds for a client, empty when it has no entry
FramesIn(fr, c) ==
    IF \E i \in DOMAIN fr : fr[i][1] = c
    THEN fr[CHOOSE i \in DOMAIN fr : fr[i][1] = c][2]
    ELSE <<>>

PseudoHeadersOf(d) == Val(Get(Val(d), "pseudo_headers"))

\* the names of the pseudo-header lines of a stream among some lines, in order
HeaderNames(lines, s) ==
    LET hs == SelectSeq(lines, LAMBDA l : l.kind = "header" /\ l.stream_id = s)
    IN  [i \in DOMAIN hs |-> PyStr(hs[i].name)]

\* C11: the HEADERS frame extracted for stream s carries exactly the names of
\* all the pseudo-header lines of stream s that precede its announcement in
\* the trace, in trace order, also when another frame announcement lies
\* between those lines and the HEADERS announcement.
C11_PseudoHeadersWholeTrace ==
    (/\ pc = "returned" /\ pos >= 1
     /\ log[pos].kind = "frame" /\ log[pos].ftype = "HEADERS"
     /\ FramesOf(log[pos].id) # <<>>
     /\ FrameTypeOf(FramesOf(log[pos].id)[Len(FramesOf(log[pos].id))]) = "HEADERS")
    => PseudoHeadersOf(FramesOf(log[pos].id)[Len(FramesOf(log[pos].id))])
         = HeaderNames(SubSeq(log, 1, pos - 1), log[pos].stream_id)

\* C11 as amended: the HEADERS frame extracted for stream s carries exactly
\* the names of the pseudo-header lines of stream s among the lines the main
\* loop read since the last appended frame (or since the start), in trace
\* order; the lines read before an appended frame are not carried over it.
C11_PseudoHeadersSinceLastFrame ==
    [][(/\ pc = "loop" /\ pos < Len(log)
        /\ log[pos + 1].kind = "frame" /\ log[pos + 1].ftype = "HEADERS")
       => LET a  == log[pos + 1]
              fl == FramesIn(frames', a.id)
          IN  /\ pc' = "returned" /\ pos' = pos + 1
              /\ fl = Append(FramesIn(frames, a.id), fl[Len(fl)])
              /\ FrameTypeOf(fl[Len(fl)]) = "HEADERS"
              /\ StreamIdOf(fl[Len(fl)]) = a.stream_id
              /\ PseudoHeadersOf(fl[Len(fl)]) =
                   HeaderNames(SubSeq(log, pos - Len(previous_lines) + 1, pos),
                               a.stream_id)
      ]_vars

\* a pseudo-header line of stream 1, then a PRIORITY frame, then the HEADERS
\* frame of stream 1: the frame carries no pseudo-header
C11_Witness ==
    /\ pc = "returned" /\ pos = 4
    /\ log = <<HeaderLine(1, 1, ":method"), FrameLine(1, "PRIORITY", 1),
               PriorityLine(0, 255, 1), FrameLine(1, "HEADERS", 1)>>
    /\ Len(FramesOf(1)) = 2
    /\ PseudoHeadersOf(FramesOf(1)[2]) = <<>>

\* C15: after a SETTINGS announcement the line that follows must be the count
\* line: when it is, the consumer reads the count line and exactly the lines
\* it counts; when it is not (or there is none), parse raises instead of
\* skipping it.
C15_SettingsGrammarEnforced ==
    [][(/\ pc = "loop" /\ pos < Len(log)
        /\ log[pos + 1].kind = "frame" /\ log[pos + 1].ftype = "SETTINGS")
       => IF pos + 2 <= Len(log) /\ log[pos + 2].kind = "niv"
          THEN (pc' = "loop") => (pos' = pos + 2 + log[pos + 2].niv)
          ELSE pc' = "raised"
      ]_vars

\* the pending buffer is the run of lines that ends at the line read last,
\* none of them an announcement; it starts at the first line of the trace or
\* after a frame was appended
BufferIsTail ==
    /\ Len(previous_lines) <= pos
    /\ previous_lines = SubSeq(log, pos - Len(previous_lines) + 1, pos)
    /\ \A i \in DOMAIN previous_lines : previous_lines[i].kind # "frame"
    /\ (pos > Len(previous_lines)) => (frames # <<>>)

\* C16: during the scan the pending buffer holds exactly the lines the main
\* loop read since the last appended frame (or the start) that are not
\* announcements, in trace order: a line that is not an announcement is added
\* to it, it is emptied when a frame of any client is appended, the lines a
\* consumer reads are not added, and a HEADERS frame takes its pseudo_headers
\* from the buffer as it is when the frame is announced.
C16_PendingBuffer ==
    [][(pc = "loop") =>
         /\ BufferIsTail
         /\ (frames' # frames) => (previous_lines' = <<>>)
         /\ (frames' = frames /\ pc' = "loop") =>
               /\ log[pos + 1].kind # "frame"
               /\ pos' = pos + 1
               /\ previous_lines' = Append(previous_lines, log[pos + 1])
         /\ (pc' = "loop") => (pos' - Len(previous_lines') >= pos - Len(previous_lines))
         /\ (/\ frames' # frames /\ log[pos + 1].ftype = "HEADERS") =>
               LET fl == FramesIn(frames', log[pos + 1].id) IN
               PseudoHeadersOf(fl[Len(fl)])
                 = HeaderNames(previous_lines, log[pos + 1].stream_id)
      ]_vars

\* a WINDOW_UPDATE frame was appended, its body line read by the consumer,
\* and the pseudo-header line after it is the only line of the buffer
C16_Witness ==
    /\ pc = "loop" /\ pos = 3
    /\ SubSeq(log, 1, 3) = <<FrameLine(2, "WINDOW_UPDATE", 0), WindowLine(65535),
                             HeaderLine(1, 1, ":method")>>
    /\ previous_lines = <<HeaderLine(1, 1, ":method")>>
    /\ Len(FramesOf(2)) = 1

\* C17: every name in the pseudo_headers of the HEADERS frame extracted for a
\* client comes from a pseudo-header line of that client (and that stream)
\* that precedes the announcement.
C17_NoCrossClientLeak ==
    (/\ pc = "returned" /\ pos >= 1
     /\ log[pos].kind = "frame" /\ log[pos].ftype = "HEADERS"
     /\ FramesOf(log[pos].id) # <<>>
     /\ FrameTypeOf(FramesOf(log[pos].id)[Len(FramesOf(log[pos].id))]) = "HEADERS")
    => LET ph == PseudoHeadersOf(FramesOf(log[pos].id)[Len(FramesOf(log[pos].id))])
       IN  \A i \in DOMAIN ph :
              \E k \in 1..(pos - 1) :
                  /\ log[k].kind = "header"
                  /\ log[k].id = log[pos].id
                  /\ log[k].stream_id = log[pos].stream_id
                  /\ PyStr(log[k].name) = ph[i]

\* the three ways parse ends, as steps that leave the loop
ExhaustedAtBoundary ==
    /\ pos = Len(log) /\ pc' = "returned"
    /\ frames' = frames /\ error' = "" /\ pos' = pos
HeadersParsed ==
    /\ pos < Len(log)
    /\ log[pos + 1].kind = "frame" /\ log[pos + 1].ftype = "HEADERS"
    /\ pc' = "returned" /\ pos' = pos + 1
    /\ frames' # frames /\ error' = ""
FatalError ==
    /\ pos < Len(log) /\ log[pos + 1].kind = "frame"
    /\ pc' = "raised" /\ error' # "" /\ frames' = frames
    /\ pos' > pos /\ pos' <= Len(log)

\* C18: on every trace parse eventually ends, in exactly one of three ways: the
\* lines are exhausted at a frame boundary and the mapping is returned, a
\* HEADERS frame is parsed and the mapping is returned, or an error is
\* raised; until then every step hands out at least one new line and never a
\* line handed out before (the count-line search included), and once ended
\* parse does not resume.
C18_Termination ==
    /\ <>(pc # "loop")
    /\ [][/\ (pc = "loop" /\ pc' = "loop") => (pos' > pos /\ pos' <= Len(log))
          /\ (pc = "loop" /\ pc' # "loop") =>
                /\ ExhaustedAtBoundary \/ HeadersParsed \/ FatalError
                /\ ~(ExhaustedAtBoundary /\ HeadersParsed)
                /\ ~(ExhaustedAtBoundary /\ FatalError)
                /\ ~(HeadersParsed /\ FatalError)
          /\ (pc # "loop") => (pc' # "loop" /\ pos' = pos /\ frames' = frames)
         ]_vars

\* parse raised after the count-line search of the SETTINGS consumer ran
\* through every remaining line without finding a count line
C18_Witness ==
    /\ pc = "raised" /\ error = EndedUnexpectedly
    /\ Len(log) = 3 /\ pos = Len(log)
    /\ log[1] = FrameLine(1, "SETTINGS", 0)
    /\ \A k \in 2..Len(log) : log[k].kind \notin {"niv", "frame"}

(***************************************************************************)
(* SpecFrame: the frame classes driven by a caller.                        *)
(***************************************************************************)
MaxSettings == 2
MaxPseudo   == 2

StreamIds    == {PyNone, PyInt(0), PyInt(1)}
SettingIds   == {1, 3, 7}
SettingVals  == {0, 100}
Increments   == {0, 65535}
PseudoNames  == {":method", ":path"}
Weights      == {16, 255}
OtherTypes   == {"PING", "RST_STREAM"}

\* a list of (id, value) tuples as a caller or the parser passes it
TupleList(pairs) ==
    PyList([i \in DOMAIN pairs |->
               PyTuple(<<PyInt(pairs[i][1]), PyInt(pairs[i][2])>>)])
StrList(names) == PyList([i \in DOMAIN names |-> PyStr(names[i])])

\* Records handed to from_dict from outside: every type, with and without the
\* stream id, with and without the field the type requires.
RequiredField(t) ==
    CASE t = "SETTINGS"      -> "settings"
      [] t = "WINDOW_UPDATE" -> "window_size_increment"
      [] t = "HEADERS"       -> "pseudo_headers"
      [] t = "PRIORITY"      -> "priority"
SamplePayload(t) ==
    CASE t = "SETTINGS"      -> TupleList(<< <<3, 100>> >>)
      [] t = "WINDOW_UPDATE" -> PyInt(65535)
      [] t = "HEADERS"       -> StrList(<<":method">>)
      [] t = "PRIORITY"      ->
            PyDict(<< <<"dep_stream_id", PyInt(0)>>, <<"weight", PyInt(255)>>,
                      <<"exclusive", PyBool(TRUE)>> >>)
MakeRecord(t, sid, withField) ==
    PyDict(<< <<"frame_type", PyStr(t)>> >>
           \o (IF sid # PyNone THEN << <<"stream_id", sid>> >> ELSE <<>>)
           \o (IF withField /\ t \in registry
               THEN << <<RequiredField(t), SamplePayload(t)>> >> ELSE <<>>))
Records ==
    {MakeRecord(t, sid, w) : t \in registry \cup OtherTypes, sid \in StreamIds,
                             w \in BOOLEAN}

NoArgs == [op |-> "none"]

InitParseIdle ==
    /\ log = <<>> /\ pos = 0 /\ frames = <<>> /\ previous_lines = <<>>
    /\ client_id = 0 /\ pc = "idle" /\ error = "" /\ sigs = <<>>
InitFrameIdle ==
    /\ args = NoArgs /\ frame = NoObject /\ rec = PyNone /\ decoded = NoObject
    /\ fop = "none"
InitSigIdle ==
    /\ sig = NoObject /\ out = PyNone /\ sop = "none"
InitObjIdle ==
    /\ heap = <<>> /\ obj = PyNone /\ res = PyNone /\ hop = "none"
    /\ canon = <<PyNone, "none">>

InitFrame == InitParseIdle /\ InitFrameIdle /\ InitSigIdle /\ InitObjIdle

NewSettingsFrame ==
    \E sid \in StreamIds, pairs \in SeqsUpTo(SettingIds \X SettingVals, MaxSettings) :
        /\ args' = [op |-> "HTTP2SettingsFrame", stream_id |-> sid, settings |-> pairs]
        /\ frame' = HTTP2SettingsFrame_init(sid, TupleList(pairs))
        /\ rec' = PyNone /\ decoded' = NoObject /\ fop' = "init"
        /\ UNCHANGED <<parseVars, sigVars, objVars>>

NewWindowUpdateFrame ==
    \E sid \in StreamIds, inc \in Increments :
        /\ args' = [op |-> "HTTP2WindowUpdateFrame", stream_id |-> sid, window_size_increment |-> inc]
        /\ frame' = HTTP2WindowUpdateFrame_init(sid, PyInt(inc))
        /\ rec' = PyNone /\ decoded' = NoObject /\ fop' = "init"
        /\ UNCHANGED <<parseVars, sigVars, objVars>>

NewHeadersFrame ==
    \E sid \in StreamIds, names \in SeqsUpTo(PseudoNames, MaxPseudo) :
        /\ args' = [op |-> "HTTP2HeadersFrame", stream_id |-> sid, pseudo_headers |-> names]
        /\ frame' = HTTP2HeadersFrame_init(sid, StrList(names))
        /\ rec' = PyNone /\ decoded' = NoObject /\ fop' = "init"
        /\ UNCHANGED <<parseVars, sigVars, objVars>>

NewPriorityFrame ==
    \E sid \in StreamIds, dep \in {0, 1}, w \in Weights, e \in BOOLEAN :
        /\ args' = [op |-> "HTTP2PriorityFrame", stream_id |-> sid, dep_stream_id |-> dep, weight |-> w, exclusive |-> e]
        /\ frame' = HTTP2PriorityFrame_init(sid, PyInt(dep), PyInt(w), PyBool(e))
        /\ rec' = PyNone /\ decoded' = NoObject /\ fop' = "init"
        /\ UNCHANGED <<parseVars, sigVars, objVars>>

NewOpaqueFrame ==
    \E sid \in StreamIds, t \in OtherTypes :
        /\ args' = [op |-> "HTTP2FrameSignature", stream_id |-> sid, frame_type |-> t]
        /\ frame' = HTTP2FrameSignature_init(PyStr(t), sid)
        /\ rec' = PyNone /\ decoded' = NoObject /\ fop' = "init"
        /\ UNCHANGED <<parseVars, sigVars, objVars>>

\* rec = frame.to_dict()
ToDict ==
    /\ frame # NoObject /\ fop = "init"
    /\ rec' = to_dict(frame)
    /\ fop' = "to_dict"
    /\ UNCHANGED <<args, frame, decoded, parseVars, sigVars, objVars>>

\* a record that did not come from to_dict
GivenRecord ==
    \E r \in Records :
        /\ rec' = r /\ frame' = NoObject /\ args' = NoArgs /\ decoded' = NoObject
        /\ fop' = "record"
        /\ UNCHANGED <<parseVars, sigVars, objVars>>

\* decoded = HTTP2FrameSignature.from_dict(rec)
FromDict ==
    /\ fop \in {"to_dict", "record"}
    /\ decoded' = from_dict(rec)
    /\ fop' = "from_dict"
    /\ UNCHANGED <<args, frame, rec, parseVars, sigVars, objVars>>

NextFrame ==
    \/ NewSettingsFrame
    \/ NewWindowUpdateFrame
    \/ NewHeadersFrame
    \/ NewPriorityFrame
    \/ NewOpaqueFrame
    \/ ToDict
    \/ GivenRecord
    \/ FromDict

SpecFrame == InitFrame /\ [][NextFrame]_vars


(***************************************************************************)
(* Claims about the frame classes, checked under SpecFrame.                *)
(***************************************************************************)
KnownClasses ==
    {"HTTP2SettingsFrame", "HTTP2WindowUpdateFrame", "HTTP2HeadersFrame",
     "HTTP2PriorityFrame"}

\* the frame was built by a constructor, serialized, and the record decoded
RoundTripDone ==
    /\ fop = "from_dict" /\ frame # NoObject /\ frame.cls \in KnownClasses
    /\ rec = to_dict(frame)

\* C3: for every frame f of a known type, from_dict(f.to_dict()) succeeds and
\* is field-for-field equal to f: re-serializing the decoded frame gives the
\* record f.to_dict() again.
C3_RoundTrip ==
    RoundTripDone =>
        /\ ~IsRaised(decoded)
        /\ decoded = frame
        /\ to_dict(decoded) = rec

\* C5: a SETTINGS frame built from a list of (id, value) pairs records a list
\* of the same length and order; a pair with id in 1..6 is recorded as
\* {id, value} unchanged, any other pair as {"id": "GREASE", "value": "GREASE"}
\* whatever its value.
C5_GreaseNormalization ==
    (args.op = "HTTP2SettingsFrame") =>
        /\ frame.cls = "HTTP2SettingsFrame"
        /\ TypeOf(frame.settings) = "list"
        /\ Len(Val(frame.settings)) = Len(args.settings)
        /\ \A i \in DOMAIN args.settings :
              LET k == args.settings[i][1]
                  v == args.settings[i][2]
              IN  Val(frame.settings)[i] =
                    IF k \in 1..6
                    THEN PyDict(<< <<"id", PyInt(k)>>, <<"value", PyInt(v)>> >>)
                    ELSE PyDict(<< <<"id", PyStr("GREASE")>>,
                                   <<"value", PyStr("GREASE")>> >>)

\* a SETTINGS frame was built from a GREASE pair followed by a registered one
C5_Witness ==
    /\ args.op = "HTTP2SettingsFrame"
    /\ args.settings = << <<7, 100>>, <<3, 100>> >>
    /\ Val(frame.settings)[1] =
          PyDict(<< <<"id", PyStr("GREASE")>>, <<"value", PyStr("GREASE")>> >>)
    /\ Val(frame.settings)[2] =
          PyDict(<< <<"id", PyInt(3)>>, <<"value", PyInt(100)>> >>)

RecType(r) == Val(Get(Val(r), "frame_type"))

\* C6: from_dict on a record whose frame_type is not registered raises nothing
\* and returns an opaque frame whose to_dict() holds the same frame_type and
\* the record's stream_id when it has one, and nothing else.
C6_UnknownTypeTolerated ==
    (fop = "from_dict" /\ RecType(rec) \notin registry) =>
        /\ ~IsRaised(decoded)
        /\ to_dict(decoded) =
              PyDict(SelectSeq(Val(rec),
                               LAMBDA kv : kv[1] \in {"frame_type", "stream_id"}))

\* C10: from_dict on a record of a known type that lacks the field its type
\* requires raises an error and returns no frame; a record that has the field
\* and lacks only "stream_id" decodes without error, to a frame whose
\* stream_id is None.
C10_MissingRequiredField ==
    (fop = "from_dict" /\ RecType(rec) \in registry) =>
        /\ ~HasKey(Val(rec), RequiredField(RecType(rec))) => IsRaised(decoded)
        /\ (/\ HasKey(Val(rec), RequiredField(RecType(rec)))
            /\ ~HasKey(Val(rec), "stream_id"))
              => (~IsRaised(decoded) /\ decoded.stream_id = PyNone)

\* a SETTINGS record without "settings" was decoded and the call raised
C10_Witness ==
    /\ fop = "from_dict"
    /\ rec = PyDict(<< <<"frame_type", PyStr("SETTINGS")>>,
                       <<"stream_id", PyInt(0)>> >>)
    /\ IsRaised(decoded) /\ decoded.exc = "KeyError"


(***************************************************************************)
(* SpecSig: an HTTP2Signature object and the calls a caller makes on it.   *)
(***************************************************************************)
MaxFrames == 2

\* the frames the signatures are built from: they differ in type, in the
\* presence of the stream id, in payload and in the order inside a payload
SigFrames ==
    { HTTP2SettingsFrame_init(PyInt(0), TupleList(<< <<1, 100>>, <<7, 0>> >>)),
      HTTP2SettingsFrame_init(PyInt(0), TupleList(<< <<7, 0>>, <<1, 100>> >>)),
      HTTP2WindowUpdateFrame_init(PyInt(0), PyInt(65535)),
      HTTP2WindowUpdateFrame_init(PyNone, PyInt(65535)),
      HTTP2HeadersFrame_init(PyInt(1), StrList(<<":method", ":path">>)),
      HTTP2HeadersFrame_init(PyInt(1), StrList(<<":path", ":method">>)),
      HTTP2PriorityFrame_init(PyInt(1), PyInt(0), PyInt(255), PyBool(TRUE)),
      HTTP2FrameSignature_init(PyStr("PING"), PyInt(0)) }

FrameLists == SeqsUpTo(SigFrames, MaxFrames)

InitSig == InitParseIdle /\ InitFrameIdle /\ InitSigIdle /\ InitObjIdle

\* sig = HTTP2Signature(frames)
NewSignature ==
    \E fs \in FrameLists :
        /\ sig = NoObject
        /\ sig' = HTTP2Signature_init(fs)
        /\ UNCHANGED <<out, sop, parseVars, frameVars, objVars>>

CallToDict ==
    /\ sig # NoObject
    /\ out' = to_dict(sig)
    /\ sop' = "to_dict"
    /\ UNCHANGED <<sig, parseVars, frameVars, objVars>>

CallCanonicalize ==
    /\ sig # NoObject
    /\ out' = PyStr(canonicalize(sig))
    /\ sop' = "canonicalize"
    /\ UNCHANGED <<sig, parseVars, frameVars, objVars>>

CallHash ==
    /\ sig # NoObject
    /\ out' = hash(sig)
    /\ sop' = "hash"
    /\ UNCHANGED <<sig, parseVars, frameVars, objVars>>

NextSig ==
    \/ NewSignature
    \/ CallToDict
    \/ CallCanonicalize
    \/ CallHash

SpecSig == InitSig /\ [][NextSig]_vars

\* every frame list with the canonical form of its signature
CanonOf == {<<fs, canonicalize(HTTP2Signature_init(fs))>> : fs \in FrameLists}

\* C4: the canonical form of a signature equals the canonical form of another
\* signature exactly when the two frame sequences are identical (same length,
\* the same frame at each position: type, stream id presence and value,
\* payload); equal canonical forms give equal hashes.
C4_CanonicalIffIdentical ==
    (sop = "canonicalize") =>
        \A other \in CanonOf :
            /\ (out = PyStr(other[2])) <=> (sig.frames = other[1])
            /\ (out = PyStr(other[2])) => (hash(sig) = <<"sha1", other[2]>>)

\* a signature of two frames was canonicalized; its frames in the other order
\* and with a stream id dropped are among the signatures it is compared with
C4_Witness ==
    /\ sop = "canonicalize"
    /\ sig.frames = <<HTTP2WindowUpdateFrame_init(PyInt(0), PyInt(65535)),
                      HTTP2FrameSignature_init(PyStr("PING"), PyInt(0))>>
    /\ <<HTTP2FrameSignature_init(PyStr("PING"), PyInt(0)),
         HTTP2WindowUpdateFrame_init(PyInt(0), PyInt(65535))>> \in FrameLists
    /\ <<HTTP2WindowUpdateFrame_init(PyNone, PyInt(65535)),
         HTTP2FrameSignature_init(PyStr("PING"), PyInt(0))>> \in FrameLists
    /\ out = PyStr("{\"frames\": [{\"frame_type\": \"WINDOW_UPDATE\", \"stream_id\": 0, \"window_size_increment\": 65535}, {\"frame_type\": \"PING\", \"stream_id\": 0}]}")

\* one frame list is the other one reordered
IsPermutation(a, b) ==
    /\ Len(a) = Len(b)
    /\ \A f \in SigFrames :
          Cardinality({i \in DOMAIN a : a[i] = f})
            = Cardinality({i \in DOMAIN b : b[i] = f})

\* C12: a signature built from a reordering of the frame list that changes the
\* sequence has a different canonical form and a different hash.
C12_OrderSensitivity ==
    (sop = "canonicalize") =>
        \A other \in CanonOf :
            (IsPermutation(other[1], sig.frames) /\ other[1] # sig.frames) =>
                /\ out # PyStr(other[2])
                /\ hash(sig) # <<"sha1", other[2]>>

\* a signature of a HEADERS frame followed by a WINDOW_UPDATE frame was
\* canonicalized; the same two frames in the other order make a signature too
C12_Witness ==
    /\ sop = "canonicalize"
    /\ sig.frames = <<HTTP2HeadersFrame_init(PyInt(1), StrList(<<":method", ":path">>)),
                      HTTP2WindowUpdateFrame_init(PyInt(0), PyInt(65535))>>
    /\ <<HTTP2WindowUpdateFrame_init(PyInt(0), PyInt(65535)),
         HTTP2HeadersFrame_init(PyInt(1), StrList(<<":method", ":path">>))>>
           \in FrameLists
    /\ out = PyStr("{\"frames\": [{\"frame_type\": \"HEADERS\", \"pseudo_headers\": [\":method\", \":path\"], \"stream_id\": 1}, {\"frame_type\": \"WINDOW_UPDATE\", \"stream_id\": 0, \"window_size_increment\": 65535}]}")

ReverseSeq(s) == [i \in 1..Len(s) |-> s[Len(s) + 1 - i]]
RotateSeq(s)  == IF s = <<>> THEN s ELSE Tail(s) \o <<Head(s)>>

\* a structured record with the keys of every mapping, at every nesting level,
\* inserted in the reverse order; lists keep their order
RECURSIVE ReverseKeys(_)
ReverseKeys(x) ==
    CASE TypeOf(x) = "dict" ->
            PyDict(ReverseSeq([i \in DOMAIN Val(x) |->
                                  <<Val(x)[i][1], ReverseKeys(Val(x)[i][2])>>]))
      [] TypeOf(x) \in {"list", "tuple"} ->
            <<TypeOf(x), [i \in DOMAIN Val(x) |-> ReverseKeys(Val(x)[i])]>>
      [] OTHER -> x

\* the same with the first key of every mapping inserted last
RECURSIVE RotateKeys(_)
RotateKeys(x) ==
    CASE TypeOf(x) = "dict" ->
            PyDict(RotateSeq([i \in DOMAIN Val(x) |->
                                 <<Val(x)[i][1], RotateKeys(Val(x)[i][2])>>]))
      [] TypeOf(x) \in {"list", "tuple"} ->
            <<TypeOf(x), [i \in DOMAIN Val(x) |-> RotateKeys(Val(x)[i])]>>
      [] OTHER -> x

\* a structured record with every list, at every nesting level, reversed;
\* mappings keep their keys and the order of their keys
RECURSIVE ReverseLists(_)
ReverseLists(x) ==
    CASE TypeOf(x) = "dict" ->
            PyDict([i \in DOMAIN Val(x) |->
                       <<Val(x)[i][1], ReverseLists(Val(x)[i][2])>>])
      [] TypeOf(x) \in {"list", "tuple"} ->
            <<TypeOf(x), ReverseSeq([i \in DOMAIN Val(x) |->
                                        ReverseLists(Val(x)[i])])>>
      [] OTHER -> x

\* C13: a structured record with the same keys and values at every nesting
\* level as the signature's own, but with the keys of its mappings inserted in
\* another order, has the canonical form of the signature; a record whose
\* ordered collections (frame list, settings list, pseudo-header list) are in
\* another order has a different canonical form.
C13_KeyOrderInsensitivity ==
    (sop = "canonicalize") =>
        LET d == to_dict(sig) IN
        /\ out = PyStr(JSONEncode(ReverseKeys(d), TRUE))
        /\ out = PyStr(JSONEncode(RotateKeys(d), TRUE))
        /\ (ReverseLists(d) # d) => (out # PyStr(JSONEncode(ReverseLists(d), TRUE)))

\* a signature of a PRIORITY frame and a HEADERS frame was canonicalized: its
\* record with weight inserted before dep_stream_id is another record, and so
\* is its record with the frames and the pseudo-headers in the other order
C13_Witness ==
    /\ sop = "canonicalize"
    /\ sig.frames = <<HTTP2PriorityFrame_init(PyInt(1), PyInt(0), PyInt(255),
                                              PyBool(TRUE)),
                      HTTP2HeadersFrame_init(PyInt(1), StrList(<<":method", ":path">>))>>
    /\ RotateKeys(to_dict(sig)) # to_dict(sig)
    /\ JSONEncode(RotateKeys(to_dict(sig)), FALSE) # JSONEncode(to_dict(sig), FALSE)
    /\ JSONEncode(ReverseKeys(to_dict(sig)), FALSE) # JSONEncode(to_dict(sig), FALSE)
    /\ ReverseLists(to_dict(sig)) # to_dict(sig)
    /\ out = PyStr("{\"frames\": [{\"frame_type\": \"PRIORITY\", \"priority\": {\"dep_stream_id\": 0, \"exclusive\": true, \"weight\": 255}, \"stream_id\": 1}, {\"frame_type\": \"HEADERS\", \"pseudo_headers\": [\":method\", \":path\"], \"stream_id\": 1}]}")

(***************************************************************************)
(* SpecObj: an HTTP2Signature held by reference and the calls a caller     *)
(* makes on it.  The result of a call is dropped when the next call is     *)
(* made.                                                                   *)
(***************************************************************************)
InitObj == InitParseIdle /\ InitFrameIdle /\ InitSigIdle /\ InitObjIdle

\* obj = HTTP2Signature(frames)
ObjNew ==
    \E fs \in FrameLists :
        /\ obj = PyNone
        /\ heap' = HTTP2Signature_init_heap(<<>>, fs).heap
        /\ obj' = HTTP2Signature_init_heap(<<>>, fs).ret
        /\ UNCHANGED <<res, hop, canon, parseVars, frameVars, sigVars>>

\* res = obj.to_dict()
ObjToDict ==
    /\ obj # PyNone
    /\ heap' = HTTP2Signature_to_dict_heap(Reclaim(heap, obj), obj).heap
    /\ res' = HTTP2Signature_to_dict_heap(Reclaim(heap, obj), obj).ret
    /\ hop' = "to_dict"
    /\ canon' = IF canon[2] = "first" THEN <<canon[1], "between">> ELSE canon
    /\ UNCHANGED <<obj, parseVars, frameVars, sigVars>>

\* res = obj.canonicalize(): the dict it encoded is garbage when it returns
ObjCanonicalize ==
    /\ obj # PyNone
    /\ heap' = Reclaim(canonicalize_heap(Reclaim(heap, obj), obj).heap, obj)
    /\ res' = PyStr(canonicalize_heap(Reclaim(heap, obj), obj).ret)
    /\ hop' = "canonicalize"
    /\ canon' = CASE canon[2] = "none" ->
                       <<PyStr(canonicalize_heap(Reclaim(heap, obj), obj).ret),
                         "first">>
                  [] canon[2] = "between" -> <<canon[1], "again">>
                  [] OTHER                -> canon
    /\ UNCHANGED <<obj, parseVars, frameVars, sigVars>>

\* res = obj.hash()
ObjHash ==
    /\ obj # PyNone
    /\ heap' = Reclaim(hash_heap(Reclaim(heap, obj), obj).heap, obj)
    /\ res' = hash_heap(Reclaim(heap, obj), obj).ret
    /\ hop' = "hash"
    /\ canon' = IF canon[2] = "first" THEN <<canon[1], "between">> ELSE canon
    /\ UNCHANGED <<obj, parseVars, frameVars, sigVars>>

NextObj ==
    \/ ObjNew
    \/ ObjToDict
    \/ ObjCanonicalize
    \/ ObjHash

SpecObj == InitObj /\ [][NextObj]_vars

\* the frame sequence of the signature: its frames with their payloads
FrameSequence(h, self) == Val(Deref(h, GetAttr(h, self, "frames")))

\* C14: once a signature is constructed, a to_dict, canonicalize or hash call
\* writes to no list, dict or instance the signature is made of, so the frame
\* sequence of the signature is what it was before the call, and every
\* canonicalize call returns the string the first one returned, whatever
\* calls were made in between.
C14_DeterminismImmutability ==
    [][(obj # PyNone) =>
          /\ \A a \in Reachable(heap, obj) :
                a \in DOMAIN heap' /\ heap'[a] = heap[a]
          /\ FrameSequence(heap', obj') = FrameSequence(heap, obj)
          /\ (hop' = "canonicalize" /\ canon[2] # "none") => (res' = canon[1])
      ]_vars

\* canonicalize was called, then to_dict or hash, then canonicalize again, on
\* a signature of a PRIORITY frame and a HEADERS frame, whose to_dict results
\* hold the frames' own priority dict and pseudo-header list
C14_Witness ==
    /\ canon[2] = "again" /\ hop = "canonicalize"
    /\ res = canon[1]
    /\ obj # PyNone
    /\ FrameSequence(heap, obj) =
          <<HTTP2PriorityFrame_init(PyInt(1), PyInt(0), PyInt(255), PyBool(TRUE)),
            HTTP2HeadersFrame_init(PyInt(1), StrList(<<":method", ":path">>))>>
    /\ LET m == HTTP2Signature_to_dict_heap(heap, obj)
           d == Cell(m.heap, Cell(m.heap, Get(Cell(m.heap, m.ret)[2], "frames"))[2][1])
       IN  Get(d[2], "priority") = GetAttr(heap, Cell(heap, GetAttr(heap, obj, "frames"))[2][1], "priority")
    /\ res = PyStr("{\"frames\": [{\"frame_type\": \"PRIORITY\", \"priority\": {\"dep_stream_id\": 0, \"exclusive\": true, \"weight\": 255}, \"stream_id\": 1}, {\"frame_type\": \"HEADERS\", \"pseudo_headers\": [\":method\", \":path\"], \"stream_id\": 1}]}")

====
